---- MODULE Spec2Model ----
(***************************************************************************)
(* boltdb-cli: an interactive / batch shell over a bbolt database file.    *)
(*                                                                         *)
(* The module holds several specifications over one set of variables:      *)
(*   HistorySpec  keepMaxLine, the history-file compaction                 *)
(*   CodecSpec    bytesToString / stringToBytes                            *)
(*   ListSpec     the paginated printer driven by a listing command        *)
(*   SessionSpec  the interactive read loop of main                        *)
(*   Spec         batch-mode invocations dispatching commands on a store   *)
(*   ValidateSpec a validation chain applied to an argument list           *)
(* Each specification leaves the variables of the others untouched.        *)
(***************************************************************************)
EXTENDS Integers, Sequences, FiniteSets, TLC

VARIABLES
    \* ---- keepMaxLine (context.go)
    hLines,     \* the lines of the history file handed to keepMaxLine
    hMax,       \* its maxLine argument
    hOut,       \* the lines of the file after the rename
    hDone,      \* keepMaxLine has run
    \* ---- codec (db.go)
    cBytes,     \* a byte string held in the store
    cText,      \* its rendering by bytesToString
    cBack,      \* the rendering decoded again by stringToBytes
    cpc,        \* "raw" -> "encoded" -> "decoded", or "raw" -> "typed"
    \* ---- a listing command and its tablePrinter (db.go)
    lItems,     \* how many names the store's ForEach will yield
    lPattern,   \* the pattern argument ("" when absent)
    lPos,       \* how many names ForEach has yielded so far
    tlTotal,    \* tablePrinter.total
    tlRows,     \* tablePrinter.tb.Rows
    lOut,       \* what reached the terminal: pages, prompts, messages
    lpc,        \* "start", "iter", "ask" (inside askContinue), "done"
    lErr,       \* the error the command returned ("" for nil)
    lAnswers,   \* the classes of the answers given to askContinue so far
    \* ---- the store and the dispatch of one command line
    db,         \* the database file's contents
    db0,        \* its contents before the last dispatched line
    out,        \* what the last dispatched line printed
    outcome,    \* how the last dispatch went: "none", "unknown", "invalid",
                \* "failed", "ok", "exit", "panic"
    execErr,    \* the error commands.Execute returned to its caller ("": nil)
    status,     \* the exit status of the process, -1 while it runs
    \* ---- batch mode (main.go 47-54)
    cmdLine,    \* the joined command line of the last invocation
    runs,       \* how many times the program has been run on the file
    \* ---- interactive mode (main.go 56-69, context.go)
    pc,         \* "start", "next" (in Context.Next), "do", "shutdown",
                \* "returned", "exited", "fatal", "crashed"
    ctxErr,     \* Context.err
    command,    \* Context.command
    memHist,    \* the history liner holds in memory
    histFile,   \* the lines of the history file
    lastPrompt, \* what liner.Prompt returned last: was the line empty, the error
    dispatched, \* how many lines Context.Next has returned in this session
    \* ---- a validation chain applied to arguments (part_001)
    vChain,     \* the checks of the chain, in composition order
    vArgs,      \* the arguments handed to the function Finish returned
    vErr,       \* the error it returned ("" for nil)
    vpc         \* "start" -> "done"

histVars  == <<hLines, hMax, hOut, hDone>>
codecVars == <<cBytes, cText, cBack, cpc>>
listVars  == <<lItems, lPattern, lPos, tlTotal, tlRows, lOut, lpc, lErr, lAnswers>>
runVars   == <<db, db0, out, outcome, execErr, status>>
batchVars == <<cmdLine, runs>>
sessVars  == <<pc, ctxErr, command, memHist, histFile, lastPrompt, dispatched>>
validVars == <<vChain, vArgs, vErr, vpc>>
vars == <<histVars, codecVars, listVars, runVars, batchVars, sessVars, validVars>>

------------------------------------------------------------------------------
(* Generic helpers on sequences.                                            *)

Range(s) == {s[i] : i \in 1..Len(s)}

Min2(a, b) == IF a < b THEN a ELSE b

\* All sequences over S of length at most n.
SeqsUpTo(S, n) == UNION {[1..k -> S] : k \in 0..n}

\* The last n entries of s (all of s when n >= Len(s)).
LastN(s, n) == SubSeq(s, Len(s) - Min2(Len(s), n) + 1, Len(s))

------------------------------------------------------------------------------
(* The byte/string codec: db.go 83-96.                                      *)
(* Go strings and byte slices are sequences of byte values 0..255.          *)

MaxBytes == 4           \* longest byte string explored
\* newline, carriage return, ctrl-A, '"', '0', '\', 'a', 'x', 0xff
CodecBytes == {10, 13, 1, 34, 48, 92, 97, 120, 255}

RECURSIVE Flatten(_)
Flatten(ss) == IF ss = <<>> THEN <<>> ELSE Head(ss) \o Flatten(Tail(ss))

\* The lower-case hexadecimal digit of d \in 0..15, as a character.
HexDigit(d) == IF d < 10 THEN 48 + d ELSE 97 + (d - 10)

\* db.go 84, fmt's %q of one byte (strconv.Quote): the quote and the
\* backslash are escaped with a backslash, printable ASCII stands for itself,
\* \a \b \f \n \r \t \v get their two-character escapes, and every other
\* control byte, DEL and a byte that is no valid UTF-8 (such as 0xff) become
\* \x and two lower-case hex digits.
QuoteByte(c) ==
    IF c = 34 \/ c = 92 THEN <<92, c>>
    ELSE IF c >= 32 /\ c <= 126 THEN <<c>>
    ELSE IF c = 7  THEN <<92, 97>>
    ELSE IF c = 8  THEN <<92, 98>>
    ELSE IF c = 12 THEN <<92, 102>>
    ELSE IF c = 10 THEN <<92, 110>>
    ELSE IF c = 13 THEN <<92, 114>>
    ELSE IF c = 9  THEN <<92, 116>>
    ELSE IF c = 11 THEN <<92, 118>>
    ELSE <<92, 120, HexDigit(c \div 16), HexDigit(c % 16)>>

\* db.go 84: fmt.Sprintf("%q", b), the double-quoted Go literal.
Quote(b) == <<34>> \o Flatten([i \in 1..Len(b) |-> QuoteByte(b[i])]) \o <<34>>

\* db.go 85-86: strings.NewReplacer("\n", `\x0a`, "\r", `\x0d`, `\"`, `"`,
\* `"`, "").Replace: one left-to-right pass, no overlapping matches, the
\* replaced text is not scanned again.
RECURSIVE ReplaceFrom(_, _)
ReplaceFrom(a, i) ==
    IF i > Len(a) THEN <<>>
    ELSE IF a[i] = 10 THEN <<92, 120, 48, 97>>  \o ReplaceFrom(a, i + 1)
    ELSE IF a[i] = 13 THEN <<92, 120, 48, 100>> \o ReplaceFrom(a, i + 1)
    ELSE IF a[i] = 92 /\ i < Len(a) /\ a[i + 1] = 34
         THEN <<34>> \o ReplaceFrom(a, i + 2)
    ELSE IF a[i] = 34 THEN ReplaceFrom(a, i + 1)
    ELSE <<a[i]>> \o ReplaceFrom(a, i + 1)

\* db.go 83-87
bytesToString(b) == ReplaceFrom(Quote(b), 1)

\* db.go 89: the character class [a-z0-9].
InClass(c) == (c >= 97 /\ c <= 122) \/ (c >= 48 /\ c <= 57)

IsHex(c) == (c >= 48 /\ c <= 57) \/ (c >= 97 /\ c <= 102)

HexValue(c) == IF c <= 57 THEN c - 48 ELSE c - 97 + 10

\* db.go 93-94: strconv.ParseUint(string(b[2:]), 16, 8) with the error
\* dropped: 0 when the two characters are not both hexadecimal digits.
ParseHex2(h, l) == IF IsHex(h) /\ IsHex(l) THEN 16 * HexValue(h) + HexValue(l) ELSE 0

\* db.go 89: replaceRE matches at position i of s.
MatchesAt(s, i) ==
    /\ i + 3 <= Len(s)
    /\ s[i] = 92
    /\ s[i + 1] = 120
    /\ InClass(s[i + 2])
    /\ InClass(s[i + 3])

\* db.go 91-96: ReplaceAllFunc over the leftmost non-overlapping matches.
RECURSIVE DecodeFrom(_, _)
DecodeFrom(s, i) ==
    IF i > Len(s) THEN <<>>
    ELSE IF MatchesAt(s, i)
         THEN <<ParseHex2(s[i + 2], s[i + 3])>> \o DecodeFrom(s, i + 4)
         ELSE <<s[i]>> \o DecodeFrom(s, i + 1)

stringToBytes(s) == DecodeFrom(s, 1)

CodecIdle == cBytes = <<>> /\ cText = <<>> /\ cBack = <<>> /\ cpc = "idle"

CodecInit0 ==
    /\ cBytes \in SeqsUpTo(CodecBytes, MaxBytes)
    /\ cText = <<>>
    /\ cBack = <<>>
    /\ cpc = "raw"

\* A stored byte string is rendered for display (commandGet, the listings).
Encode ==
    /\ cpc = "raw"
    /\ cText' = bytesToString(cBytes)
    /\ cpc' = "encoded"
    /\ UNCHANGED <<cBytes, cBack>>

\* The displayed text is typed back as a command token.
Decode ==
    /\ cpc = "encoded"
    /\ cBack' = stringToBytes(cText)
    /\ cpc' = "decoded"
    /\ UNCHANGED <<cBytes, cText>>

\* A token typed on a command line names a bucket, a key or a value
\* (db.go 188, 335, 364, 383, 412, 416, 428).
DecodeTyped ==
    /\ cpc = "raw"
    /\ cBack' = stringToBytes(cBytes)
    /\ cpc' = "typed"
    /\ UNCHANGED <<cBytes, cText>>

------------------------------------------------------------------------------
(* The paginated printer under a listing command: db.go 212-302.            *)
(* commandListBucket and commandListBucketKeys drive the same loop: the     *)
(* store's ForEach yields names in its native order, the callback filters   *)
(* them through the matcher and hands the rest to tablePrinter.add.  The    *)
(* names are numbered 1..lItems in iteration order.  The command blocks     *)
(* inside askContinue, so the handler is cut at each ReadLine.              *)

askContinueSize == 32
MaxItems   == 66        \* most names a listing iterates over
MaxInvalid == 1         \* most unrecognised answers given to one listing

ListPatterns == {"", "even", "["}

\* db.go 102-111: newMatcher; "[" stands for a pattern regexp.Compile rejects.
newMatcherErr(pattern) == IF pattern = "[" THEN "bad pattern synta" ELSE ""

\* db.go 113-118: matcher.Match; the pattern "even" stands for a regular
\* expression matching every second name.
Match(pattern, item) == IF pattern = "" THEN TRUE ELSE item % 2 = 0

\* db.go 219-222: the answers askContinue recognises.
Affirmative == {"y", "yes", "Y", "YES", "Yes", ""}
Negative    == {"n", "no", "N", "No", "NO"}
AnswerLines == Affirmative \cup Negative \cup {"maybe"}

\* What reaches the output sink, one event per write: a table of rows
\* (tablePrinter.out), or a message of some kind k with its text v.
Page(rows)   == [k |-> "page", rows |-> rows, v |-> ""]
Event(k, v)  == [k |-> k, rows |-> <<>>, v |-> v]
PromptEvent  == Event("prompt", "continue [Y/n]?")
InvalidEvent == Event("invalid", "Invalid input")

\* A page-boundary test that lets the first 32 rows pass without a flush.
AtPageBoundaryStrict(total) == total % askContinueSize = 0 /\ total > askContinueSize

\* db.go 242: the page-boundary test of tablePrinter.add.
AtPageBoundary(total) == total % askContinueSize = 0 /\ total >= askContinueSize

\* An out that prints the table and keeps its rows.
TableOutKeepingRows(output, rows) ==
    IF Len(rows) = 0 THEN <<output, rows>>
    ELSE <<Append(output, Page(rows)), rows>>

\* db.go 249-257: tablePrinter.out, as the pair <<output, rows>> it leaves.
TableOut(output, rows) ==
    IF Len(rows) = 0 THEN <<output, rows>>
    ELSE <<Append(output, Page(rows)), <<>>>>

ListIdle ==
    /\ lItems = 0 /\ lPattern = "" /\ lPos = 0 /\ tlTotal = 0 /\ tlRows = <<>>
    /\ lOut = <<>> /\ lpc = "idle" /\ lErr = "" /\ lAnswers = <<>>

ListInit0 ==
    /\ lItems \in 0..MaxItems
    /\ lPattern \in ListPatterns
    /\ lPos = 0 /\ tlTotal = 0 /\ tlRows = <<>>
    /\ lOut = <<>> /\ lpc = "start" /\ lErr = "" /\ lAnswers = <<>>

\* db.go 272-281: the printer is made and the pattern compiled; a bad
\* pattern returns before any store access or output.
ListStart ==
    /\ lpc = "start"
    /\ IF newMatcherErr(lPattern) # ""
       THEN lpc' = "done" /\ lErr' = newMatcherErr(lPattern)
       ELSE lpc' = "iter" /\ lErr' = ""
    /\ UNCHANGED <<lItems, lPattern, lPos, tlTotal, tlRows, lOut, lAnswers>>

\* db.go 282-295 with 234-247: the callback for the next name, up to the
\* first ReadLine of askContinue when a page boundary is reached.
ListVisit ==
    /\ lpc = "iter"
    /\ lPos < lItems
    /\ lPos' = lPos + 1
    /\ IF ~Match(lPattern, lPos + 1)
       THEN UNCHANGED <<tlTotal, tlRows, lOut, lpc>>
       ELSE LET total == tlTotal + 1
                rows  == Append(tlRows, <<total, lPos + 1>>)
            IN  /\ tlTotal' = total
                /\ IF AtPageBoundary(total)
                   THEN /\ tlRows' = TableOut(lOut, rows)[2]
                        /\ lOut' = Append(TableOut(lOut, rows)[1], PromptEvent)
                        /\ lpc' = "ask"
                   ELSE /\ tlRows' = rows
                        /\ UNCHANGED <<lOut, lpc>>
    /\ UNCHANGED <<lItems, lPattern, lErr, lAnswers>>

\* db.go 296-301 (354-358): what follows the iteration: the final out, and
\* errExit turned into a nil error.
ListReturn ==
    /\ lOut' = TableOut(lOut, tlRows)[1]
    /\ tlRows' = TableOut(lOut, tlRows)[2]
    /\ lpc' = "done"
    /\ lErr' = ""

\* db.go 212-227 with 244-246 and 291-293: one line read by askContinue.
\* failed = TRUE is ReadLine returning an error.
ListAnswer(line, failed) ==
    /\ lpc = "ask"
    /\ IF failed \/ line \in Negative
       THEN /\ lAnswers' = Append(lAnswers, "no")
            /\ ListReturn
       ELSE IF line \in Affirmative
       THEN /\ lAnswers' = Append(lAnswers, "yes")
            /\ lpc' = "iter"
            /\ UNCHANGED <<tlRows, lOut, lErr>>
       ELSE /\ Len(SelectSeq(lAnswers, LAMBDA a : a = "invalid")) < MaxInvalid
            /\ lAnswers' = Append(lAnswers, "invalid")
            /\ lOut' = lOut \o <<InvalidEvent, PromptEvent>>
            /\ UNCHANGED <<tlRows, lpc, lErr>>
    /\ UNCHANGED <<lItems, lPattern, lPos, tlTotal>>

\* db.go 296-301: ForEach has yielded every name.
ListFinish ==
    /\ lpc = "iter"
    /\ lPos = lItems
    /\ ListReturn
    /\ UNCHANGED <<lItems, lPattern, lPos, tlTotal, lAnswers>>

------------------------------------------------------------------------------
(* Command lines.                                                           *)
(* A line is a sequence of items, each a word (a maximal run of             *)
(* non-blank characters, a string) or a blank SP; two words of a line       *)
(* always have a blank between them.  The empty line is <<>>.               *)

SP == " "

\* part_000 61: strings.Fields drops the blanks and keeps the words.
Fields(line) == SelectSeq(line, LAMBDA x : x # SP)

\* main.go 48: strings.Join(flag.Args()[1:], " "); each argument is itself
\* a line (it may be empty, or hold blanks when the shell quoted it).
RECURSIVE Join(_)
Join(argv) ==
    IF argv = <<>> THEN <<>>
    ELSE IF Len(argv) = 1 THEN argv[1]
    ELSE argv[1] \o <<SP>> \o Join(Tail(argv))

\* The characters of the words used as names, keys, values and patterns.
Chars(w) ==
    CASE w = "A" -> <<65>>
      [] w = "B" -> <<66>>
      [] w = "\\x41" -> <<92, 120, 52, 49>>
      [] w = "k" -> <<107>>
      [] w = "j" -> <<106>>
      [] w = "n" -> <<110>>
      [] w = "v" -> <<118>>
      [] w = "w" -> <<119>>
      [] w = "[" -> <<91>>
      [] w = "%" -> <<37>>
      [] w = "key" -> <<107, 101, 121>>
      [] w = "bucket" -> <<98, 117, 99, 107, 101, 116>>
      [] w = "withvalue" -> <<119, 105, 116, 104, 118, 97, 108, 117, 101>>

\* stringToBytes(args[i]) for a word of a command line.
WordBytes(w) == stringToBytes(Chars(w))

------------------------------------------------------------------------------
(* The store: a bbolt database (go.mod 8), seen through the calls db.go     *)
(* makes.  db maps the names of the top-level buckets to buckets; a bucket  *)
(* maps keys to entries; an entry is a value or a nested bucket.  Names,    *)
(* keys and values are byte strings.  Nested buckets come with the file:    *)
(* no command creates one.  They are modelled one level deep.               *)

Val(v)     == [t |-> "v", v |-> v, b |-> <<>>]
Nested(kv) == [t |-> "b", v |-> <<>>, b |-> kv]

EmptyBucket == <<>>

\* f with x mapped to y.
Upsert(f, x, y) == [z \in DOMAIN f \cup {x} |-> IF z = x THEN y ELSE f[z]]
\* f without x.
Without(f, x) == [z \in DOMAIN f \ {x} |-> f[z]]

\* bytes.Compare(a, b) < 0: the order of bbolt's cursors.
RECURSIVE BytesLess(_, _)
BytesLess(a, b) ==
    IF b = <<>> THEN FALSE
    ELSE IF a = <<>> THEN TRUE
    ELSE IF a[1] # b[1] THEN a[1] < b[1]
    ELSE BytesLess(Tail(a), Tail(b))

\* The members of S in cursor order: what ForEach yields.
RECURSIVE InOrder(_)
InOrder(S) ==
    IF S = {} THEN <<>>
    ELSE LET m == CHOOSE x \in S : \A y \in S \ {x} : BytesLess(x, y)
         IN  <<m>> \o InOrder(S \ {m})

\* Results of store calls: the new object and the error ("" for nil).
Ok(x)       == [x |-> x, err |-> ""]
Fail(x, e)  == [x |-> x, err |-> e]

\* bolt.Tx.CreateBucketIfNotExists (db.go 368, 412, 433).
CreateBucketIfNotExists(store, name) ==
    IF name = <<>> THEN Fail(store, "bucket name required")
    ELSE IF name \in DOMAIN store THEN Ok(store)
    ELSE Ok(Upsert(store, name, EmptyBucket))

\* A DeleteBucket that returns nil and leaves the bucket in place.
DeleteBucketKeeping(store, name) ==
    IF name \notin DOMAIN store THEN Fail(store, "bucket not found")
    ELSE Ok(store)

\* bolt.Tx.DeleteBucket (db.go 402, 451): the bucket goes with all it nests.
DeleteBucket(store, name) ==
    IF name \notin DOMAIN store THEN Fail(store, "bucket not found")
    ELSE Ok(Without(store, name))

\* bolt.Bucket.Put (db.go 373, 416, 446): a key that names a nested bucket
\* cannot be given a value; a nil value is stored as the empty value.
Put(bucket, key, value) ==
    IF key = <<>> THEN Fail(bucket, "key required")
    ELSE IF key \in DOMAIN bucket /\ bucket[key].t = "b"
         THEN Fail(bucket, "incompatible value")
    ELSE Ok(Upsert(bucket, key, Val(value)))

\* A Delete that returns nil and leaves the key in place.
DeleteKeepingKey(bucket, key) == Ok(bucket)

\* bolt.Bucket.Delete (db.go 390): a missing key is no error.
Delete(bucket, key) ==
    IF key \notin DOMAIN bucket THEN Ok(bucket)
    ELSE IF bucket[key].t = "b" THEN Fail(bucket, "incompatible value")
    ELSE Ok(Without(bucket, key))

\* bolt.Bucket.ForEach hands the callback (k, v) with v nil for a nested
\* bucket; what Put then stores for it is the empty value.
ForEachValue(entry) == IF entry.t = "v" THEN entry.v ELSE <<>>

\* bolt.Bucket.Stats().KeyN: the keys of the bucket and of those it nests.
KeyN(bucket) ==
    LET ks == DOMAIN bucket
        RECURSIVE Sum(_)
        Sum(S) == IF S = {} THEN 0
                  ELSE LET k == CHOOSE x \in S : TRUE
                       IN  1 + (IF bucket[k].t = "b" THEN Cardinality(DOMAIN bucket[k].b) ELSE 0)
                           + Sum(S \ {k})
    IN  Sum(ks)

------------------------------------------------------------------------------
(* Validation chains: part_001.  A chain is a sequence of checks; an error  *)
(* is its message, "" is nil.                                               *)

NumArgsCheck(n)          == [f |-> "NumArgs", n |-> n, ns |-> <<>>, choices |-> <<>>]
MaxArgsCheck(n)          == [f |-> "MaxArgs", n |-> n, ns |-> <<>>, choices |-> <<>>]
MinArgsCheck(n)          == [f |-> "MinArgs", n |-> n, ns |-> <<>>, choices |-> <<>>]
NumArgsChoiceCheck(ns)   == [f |-> "NumArgsChoice", n |-> 0, ns |-> ns, choices |-> <<>>]
ChoicesCheck(pos, cs)    == [f |-> "Choices", n |-> pos, ns |-> <<>>, choices |-> cs]

\* fmt's %+v of a slice: the elements between brackets, blanks between them.
RECURSIVE SliceText(_, _)
SliceText(texts, i) ==
    IF i > Len(texts) THEN ""
    ELSE (IF i > 1 THEN " " ELSE "") \o texts[i] \o SliceText(texts, i + 1)

FormatSlice(texts) == "[" \o SliceText(texts, 1) \o "]"

\* part_001 31-81: one check applied to args.
RunCheck(c, args) ==
    CASE c.f = "NumArgs" ->
            IF Len(args) # c.n
            THEN "expect " \o ToString(c.n) \o " arguments, got " \o ToString(Len(args))
            ELSE ""
      [] c.f = "MaxArgs" ->
            IF Len(args) > c.n
            THEN "expect max " \o ToString(c.n) \o " arguments, got " \o ToString(Len(args))
            ELSE ""
      [] c.f = "MinArgs" ->
            IF Len(args) < c.n
            THEN "expect minimum " \o ToString(c.n) \o " arguments, got " \o ToString(Len(args))
            ELSE ""
      [] c.f = "NumArgsChoice" ->
            IF \E i \in 1..Len(c.ns) : c.ns[i] = Len(args) THEN ""
            ELSE "expect " \o FormatSlice([i \in 1..Len(c.ns) |-> ToString(c.ns[i])])
                     \o " arguments, got " \o ToString(Len(args))
      [] c.f = "Choices" ->
            IF Len(args) <= c.n THEN ""
            ELSE IF \E i \in 1..Len(c.choices) : c.choices[i] = args[c.n + 1] THEN ""
            ELSE ToString(c.n + 1) \o "-th arguments should be one of "
                     \o FormatSlice(c.choices)

\* part_001 15-24: Finish, the error of the first failing check.
RECURSIVE FinishFrom(_, _, _)
FinishFrom(v, args, i) ==
    IF i > Len(v) THEN ""
    ELSE IF RunCheck(v[i], args) # "" THEN RunCheck(v[i], args)
    ELSE FinishFrom(v, args, i + 1)

\* A chain that goes on after a failure and returns the last error.
RECURSIVE FinishLastFrom(_, _, _)
FinishLastFrom(v, args, i) ==
    IF i > Len(v) THEN ""
    ELSE IF FinishLastFrom(v, args, i + 1) # "" THEN FinishLastFrom(v, args, i + 1)
    ELSE RunCheck(v[i], args)

FinishLast(v, args) == FinishLastFrom(v, args, 1)

Finish(v, args) == FinishFrom(v, args, 1)

MaxChainLen == 2        \* longest chain explored
MaxArgCount == 3        \* most arguments explored

\* The checks chains are composed of, and the words given as arguments.
ValidChecks == {
    NumArgsCheck(1), NumArgsCheck(2), MinArgsCheck(1), MinArgsCheck(2),
    MaxArgsCheck(1), MaxArgsCheck(2), NumArgsChoiceCheck(<<0, 2>>),
    ChoicesCheck(0, <<"bucket", "key">>), ChoicesCheck(1, <<"withvalue">>) }
ValidWords == {"bucket", "x"}

ValidIdle == vChain = <<>> /\ vArgs = <<>> /\ vErr = "" /\ vpc = "idle"

ValidInit0 ==
    /\ vChain \in SeqsUpTo(ValidChecks, MaxChainLen)
    /\ vArgs \in SeqsUpTo(ValidWords, MaxArgCount)
    /\ vErr = ""
    /\ vpc = "start"

\* db.go 137-139, part_000 70: the function Finish returned is called.
Validate ==
    /\ vpc = "start"
    /\ vErr' = Finish(vChain, vArgs)
    /\ vpc' = "done"
    /\ UNCHANGED <<vChain, vArgs>>

------------------------------------------------------------------------------
(* The executors: db.go 157-457, part_000 98-131.  An executor yields the   *)
(* store it leaves, what it printed, the error it returned and whether it   *)
(* ended the process ("exit0": os.Exit(0), "panic": a run-time panic).      *)

Res(store, printed, err) == [db |-> store, out |-> printed, err |-> err, exit |-> "none"]
Panic(store, printed)    == [db |-> store, out |-> printed, err |-> "", exit |-> "panic"]

\* db.go 162-175, 183: commandStat prints the totals (the B+tree depth,
\* a property of the file's pages, is left out of the row).
commandStat(store, args) ==
    LET RECURSIVE Total(_)
        Total(S) == IF S = {} THEN 0
                    ELSE LET b == CHOOSE x \in S : TRUE
                         IN  KeyN(store[b]) + Total(S \ {b})
    IN  Res(store, <<Event("stat", <<Total(DOMAIN store), Cardinality(DOMAIN store)>>)>>, "")

\* context.go 179-184: Printf indexes the last character of its format.
PrintfPanics(format) == format = <<>>

\* context.go 183: fmt.Fprintf(w, format) without operands.  %% prints one
\* %, a % that ends the format prints %!(NOVERB), a % before a verb letter c
\* prints %!c(MISSING); every other character prints as it is.  (Flags and
\* widths between % and the verb are not modelled: the formats explored hold
\* % only before a letter, before % or at the end.)
RECURSIVE FprintfFrom(_, _)
FprintfFrom(format, i) ==
    IF i > Len(format) THEN <<>>
    ELSE IF format[i] # 37 THEN <<format[i]>> \o FprintfFrom(format, i + 1)
    ELSE IF i = Len(format) THEN <<37, 33, 40, 78, 79, 86, 69, 82, 66, 41>>
    ELSE IF format[i + 1] = 37 THEN <<37>> \o FprintfFrom(format, i + 2)
    ELSE <<37, 33, format[i + 1], 40, 77, 73, 83, 83, 73, 78, 71, 41>>
             \o FprintfFrom(format, i + 2)

Fprintf(format) == FprintfFrom(format, 1)

\* bolt.Bucket.Bucket (db.go 195): the nested bucket under a key, if any.
HasNested(bucket, name) == name \in DOMAIN bucket /\ bucket[name].t = "b"

\* A walk that takes every path element as found and stays where it is.
WalkPathStaying(bu, path, i) == <<TRUE, bu, "">>

\* db.go 193-201: the walk down the nested path args[1 : len(args)-1].
\* Yields <<found, bucket, word>>: word is the path element not found.
RECURSIVE WalkPath(_, _, _)
WalkPath(bu, path, i) ==
    IF i > Len(path) THEN <<TRUE, bu, "">>
    ELSE IF ~HasNested(bu, WordBytes(path[i])) THEN <<FALSE, bu, path[i]>>
    ELSE WalkPath(bu[WordBytes(path[i])].b, path, i + 1)

\* db.go 186-210
commandGet(store, args) ==
    LET name == WordBytes(args[1])
    IN  IF name \notin DOMAIN store
        THEN Res(store, <<Event("notfound", "err: bucket not found")>>, "")
        ELSE LET walk == WalkPath(store[name], SubSeq(args, 2, Len(args) - 1), 1)
                 bu   == walk[2]
                 key  == WordBytes(args[Len(args)])
             IN  IF ~walk[1]
                 THEN Res(store, <<Event("notfound", "err: bucket " \o walk[3] \o " not found")>>, "")
                 ELSE IF key \notin DOMAIN bu \/ bu[key].t = "b"
                 THEN Res(store, <<Event("notfound", "err: key-value not found")>>, "")
                 ELSE IF PrintfPanics(bytesToString(bu[key].v))
                 THEN Panic(store, <<>>)
                 ELSE Res(store, <<Event("value", Fprintf(bytesToString(bu[key].v)))>>, "")

\* regexp.Compile (db.go 106): of the patterns used, only "[" is rejected.
Compiles(pattern) == pattern # "["

\* b holds p as a substring.
Contains(b, p) ==
    \E i \in 1..(Len(b) - Len(p) + 1) : SubSeq(b, i, i + Len(p) - 1) = p

\* db.go 113-118: matcher.Match; the patterns used are literal words, which
\* match the names that contain them.
MatchBytes(pattern, b) == IF pattern = "" THEN TRUE ELSE Contains(b, Chars(pattern))

\* db.go 234-257 for a listing of fewer than askContinueSize rows: each
\* row gets its index, no page boundary is reached, and the out that
\* follows the iteration prints the table unless it is empty.
RECURSIVE Numbered(_, _)
Numbered(cells, i) ==
    IF i > Len(cells) THEN <<>>
    ELSE <<(<<i>> \o cells[i])>> \o Numbered(cells, i + 1)

PrintRows(cells) == TableOut(<<>>, Numbered(cells, 1))[1]

\* db.go 271-302
commandListBucket(store, args) ==
    LET pattern == IF Len(args) = 1 THEN args[1] ELSE ""
        names   == SelectSeq(InOrder(DOMAIN store), LAMBDA b : MatchBytes(pattern, b))
    IN  IF ~Compiles(pattern) THEN Res(store, <<>>, "bad pattern synta")
        ELSE Res(store,
                 PrintRows([i \in 1..Len(names) |->
                               <<bytesToString(names[i]), KeyN(store[names[i]])>>]),
                 "")

\* db.go 307-322 (case 3): whether values are shown with two extra tokens.
WithValueOfThree(args) == TRUE

\* db.go 305-322: the options read from the tokens after the bucket name.
KeysOptions(args) ==
    IF Len(args) = 2
    THEN IF args[2] = "withvalue"
         THEN [withValue |-> TRUE, pattern |-> ""]
         ELSE [withValue |-> FALSE, pattern |-> args[2]]
    ELSE IF Len(args) = 3
    THEN [withValue |-> WithValueOfThree(args),
          pattern |-> IF args[2] = "withvalue" THEN args[3]
                      ELSE IF args[3] = "withvalue" THEN args[2]
                      ELSE ""]
    ELSE [withValue |-> FALSE, pattern |-> ""]

\* db.go 304-359
commandListBucketKeys(store, args) ==
    LET opt  == KeysOptions(args)
        name == WordBytes(args[1])
    IN  IF ~Compiles(opt.pattern) THEN Res(store, <<>>, "bad pattern synta")
        ELSE IF name \notin DOMAIN store
        THEN Res(store, <<Event("notfound", "err: bucket not found")>>, "")
        ELSE LET bu   == store[name]
                 keys == SelectSeq(InOrder(DOMAIN bu), LAMBDA k : MatchBytes(opt.pattern, k))
             IN  Res(store,
                     PrintRows([i \in 1..Len(keys) |->
                         IF opt.withValue
                         THEN <<bytesToString(keys[i]), bytesToString(ForEachValue(bu[keys[i]]))>>
                         ELSE <<bytesToString(keys[i])>>]),
                     "")

\* An update that commits what the function left even when it failed.
UpdateWithoutRollback(store, r) == Res(r.x, <<>>, r.err)

\* db.Update (db.go 363, 384, 400, 411, 432): the transaction commits what
\* the function left when it returned nil and rolls back otherwise.
Update(store, r) == IF r.err = "" THEN Res(r.x, <<>>, "") ELSE Res(store, <<>>, r.err)

\* db.go 372-374, 445-447: every (k, v) of src put into dst, in cursor
\* order, stopping at the first error.
RECURSIVE PutAllFrom(_, _, _, _)
PutAllFrom(dst, src, keys, i) ==
    IF i > Len(keys) THEN Ok(dst)
    ELSE LET r == Put(dst, keys[i], ForEachValue(src[keys[i]]))
         IN  IF r.err # "" THEN r ELSE PutAllFrom(r.x, src, keys, i + 1)

PutAll(dst, src) == PutAllFrom(dst, src, InOrder(DOMAIN src), 1)

\* db.go 361-376
commandCopyBucket(store, args) ==
    LET dst == WordBytes(args[1])
        src == WordBytes(args[2])
    IN  IF src \notin DOMAIN store THEN Update(store, Ok(store))
        ELSE LET c == CreateBucketIfNotExists(store, dst)
             IN  IF c.err # "" THEN Update(store, c)
                 ELSE LET p == PutAll(c.x[dst], c.x[src])
                      IN  IF p.err # "" THEN Update(store, Fail(store, p.err))
                          ELSE Update(store, Ok(Upsert(c.x, dst, p.x)))

\* db.go 389-393
RECURSIVE DeleteKeys(_, _, _)
DeleteKeys(bu, words, i) ==
    IF i > Len(words) THEN Ok(bu)
    ELSE LET r == Delete(bu, WordBytes(words[i]))
         IN  IF r.err # "" THEN r ELSE DeleteKeys(r.x, words, i + 1)

\* db.go 401-405
RECURSIVE DeleteBuckets(_, _, _)
DeleteBuckets(store, words, i) ==
    IF i > Len(words) THEN Ok(store)
    ELSE LET r == DeleteBucket(store, WordBytes(words[i]))
         IN  IF r.err # "" THEN r ELSE DeleteBuckets(r.x, words, i + 1)

\* db.go 378-408
commandRemove(store, args) ==
    IF args[1] = "key"
    THEN IF Len(args) < 3
         THEN Res(store, <<>>, "remove a key must provides bucket and key")
         ELSE LET bucket == WordBytes(args[2])
              IN  IF bucket \notin DOMAIN store THEN Update(store, Ok(store))
                  ELSE LET r == DeleteKeys(store[bucket], args, 3)
                       IN  IF r.err # "" THEN Update(store, Fail(store, r.err))
                           ELSE Update(store, Ok(Upsert(store, bucket, r.x)))
    ELSE IF Len(args) < 2
         THEN Res(store, <<>>, "remove a bucket must provides bucket name")
         ELSE Update(store, DeleteBuckets(store, args, 2))

\* db.go 410-418
commandSet(store, args) ==
    LET name == WordBytes(args[1])
        c    == CreateBucketIfNotExists(store, name)
    IN  IF c.err # "" THEN Update(store, c)
        ELSE LET p == Put(c.x[name], WordBytes(args[2]), WordBytes(args[3]))
             IN  IF p.err # "" THEN Update(store, Fail(store, p.err))
                 ELSE Update(store, Ok(Upsert(c.x, name, p.x)))

\* db.go 437-454: the loop over the snapshot of bucket names.
RECURSIVE MergeFrom(_, _, _, _)
MergeFrom(store, dest, buckets, i) ==
    IF i > Len(buckets) THEN Ok(store)
    ELSE LET b == buckets[i]
         IN  IF b = dest \/ b \notin DOMAIN store
             THEN MergeFrom(store, dest, buckets, i + 1)
             ELSE LET p == PutAll(store[dest], store[b])
                  IN  IF p.err # "" THEN Fail(store, p.err)
                      ELSE LET d == DeleteBucket(Upsert(store, dest, p.x), b)
                           IN  IF d.err # "" THEN d
                               ELSE MergeFrom(d.x, dest, buckets, i + 1)

\* db.go 420-457
commandMergeAllBucketIntoOne(store, args) ==
    LET buckets == InOrder(DOMAIN store)
        dest    == WordBytes(args[1])
        c       == CreateBucketIfNotExists(store, dest)
    IN  IF c.err # "" THEN Update(store, c)
        ELSE Update(store, MergeFrom(c.x, dest, buckets, 1))

------------------------------------------------------------------------------
(* The registry and the dispatcher: part_000, db.go 15-81.                  *)

Cmd(alias, validates, executor) ==
    [alias |-> alias, validates |-> validates, executor |-> executor]

\* db.go 62: the executor registered under copy-bucket / cpbkt.
CopyBucketExecutor == "commandRemove"

\* part_000 29-34 and db.go 15-81: the commands in registration order.
Registry == <<
    Cmd({"help", "h", "?"}, <<MaxArgsCheck(1)>>, "help"),
    Cmd({"exit", "q"}, <<NumArgsCheck(0)>>, "exit"),
    Cmd({"stat", "st"}, <<NumArgsCheck(0)>>, "commandStat"),
    Cmd({"get", "g"}, <<MinArgsCheck(2), MaxArgsCheck(1024)>>, "commandGet"),
    Cmd({"buckets", "b"}, <<MaxArgsCheck(1)>>, "commandListBucket"),
    Cmd({"keys", "k"}, <<MinArgsCheck(1), MaxArgsCheck(3)>>, "commandListBucketKeys"),
    Cmd({"remove", "rm"}, <<MinArgsCheck(2), ChoicesCheck(0, <<"bucket", "key">>)>>,
        "commandRemove"),
    Cmd({"copy-bucket", "cpbkt"}, <<NumArgsCheck(2)>>, CopyBucketExecutor),
    Cmd({"set", "s"}, <<NumArgsCheck(3)>>, "commandSet"),
    Cmd({"merge-all-buckets-into-one"}, <<NumArgsCheck(1)>>,
        "commandMergeAllBucketIntoOne") >>

\* part_000 40-49: the index of the first command with the alias, 0 if none.
find(cmd) ==
    IF \E i \in 1..Len(Registry) : cmd \in Registry[i].alias
    THEN CHOOSE i \in 1..Len(Registry) :
             /\ cmd \in Registry[i].alias
             /\ \A j \in 1..(i - 1) : cmd \notin Registry[j].alias
    ELSE 0

\* part_000 54: what findE prints for an unknown command.
UnknownEvent(cmd) == Event("unknown", "unknown command: '" \o cmd \o "', press ?/h for help")

\* part_000 98-114: help prints usage or the command list; an unknown
\* command name is reported by findE.
helpExecute(store, args) ==
    IF Len(args) > 0 /\ find(args[1]) = 0
    THEN Res(store, <<UnknownEvent(args[1])>>, "")
    ELSE Res(store, <<Event("help", "")>>, "")

\* part_000 127-131: Close, then os.Exit(0).
exitExecute(store, args) == [db |-> store, out |-> <<>>, err |-> "", exit |-> "exit0"]

\* part_000 74 with db.go 141-143: the command's executor is called.
RunExecutor(executor, store, args) ==
    CASE executor = "help" -> helpExecute(store, args)
      [] executor = "exit" -> exitExecute(store, args)
      [] executor = "commandStat" -> commandStat(store, args)
      [] executor = "commandGet" -> commandGet(store, args)
      [] executor = "commandListBucket" -> commandListBucket(store, args)
      [] executor = "commandListBucketKeys" -> commandListBucketKeys(store, args)
      [] executor = "commandRemove" -> commandRemove(store, args)
      [] executor = "commandCopyBucket" -> commandCopyBucket(store, args)
      [] executor = "commandSet" -> commandSet(store, args)
      [] executor = "commandMergeAllBucketIntoOne" -> commandMergeAllBucketIntoOne(store, args)

\* A dispatcher that hands the error it printed back to its caller.
ReturnedToCaller(err) == err

\* part_000 70-78: the error Execute returns once it has printed err.
ReportedOnly(err) == ""

Done(store, output, err, exit, kind) ==
    [db |-> store, out |-> output, err |-> err, exit |-> exit, kind |-> kind]

\* part_000 74-78: what Execute does with the outcome r of the executor.
Executed(r) ==
    IF r.exit # "none"
    THEN Done(r.db, r.out, "", r.exit, IF r.exit = "panic" THEN "panic" ELSE "exit")
    ELSE IF r.err # ""
    THEN Done(r.db, Append(r.out, Event("error", r.err)),
              ReportedOnly(r.err), "none", "failed")
    ELSE Done(r.db, r.out, "", "none", "ok")

\* A dispatcher that checks the argument list without its first argument and
\* executes on the whole list.
DispatchCheckingShifted(store, e, args) ==
    IF Finish(Registry[e].validates, SubSeq(args, 2, Len(args))) # ""
    THEN Done(store,
              <<Event("error", Finish(Registry[e].validates, SubSeq(args, 2, Len(args))))>>,
              "", "none", "invalid")
    ELSE Executed(RunExecutor(Registry[e].executor, store, args))

\* part_000 66-78: the command found at index e is checked, then executed.
Dispatch(store, e, args) ==
    IF Finish(Registry[e].validates, args) # ""
    THEN Done(store, <<Event("error", Finish(Registry[e].validates, args))>>,
              ReportedOnly(Finish(Registry[e].validates, args)), "none", "invalid")
    ELSE Executed(RunExecutor(Registry[e].executor, store, args))

\* part_000 60-79: commands.Execute on one line.  fullargs[0] of a line
\* without a word is an index out of range: a run-time panic.
Execute(store, cmd) ==
    IF Len(Fields(cmd)) = 0 THEN Done(store, <<>>, "", "panic", "panic")
    ELSE IF find(Fields(cmd)[1]) = 0
    THEN Done(store, <<UnknownEvent(Fields(cmd)[1])>>, "", "none", "unknown")
    ELSE Dispatch(store, find(Fields(cmd)[1]), Tail(Fields(cmd)))

------------------------------------------------------------------------------
(* keepMaxLine: context.go 128-177.                                         *)
(* File contents are sequences of lines, as bufio.Scanner yields them.      *)

MaxHistLen == 5         \* longest history file explored
MaxKeep    == 3         \* largest maxLine explored
HistLines  == {"a", "b", "c", "d"}

\* context.go 147-153: Go index of the first entry equal to t, -1 if none.
FirstPos(lines, t) ==
    IF \E i \in 1..Len(lines) : lines[i] = t
    THEN (CHOOSE i \in 1..Len(lines) :
              /\ lines[i] = t
              /\ \A j \in 1..(i - 1) : lines[j] # t) - 1
    ELSE -1

\* context.go 155: lines[len-1], lines[pos] = lines[pos], lines[len-1]
\* (pos is a Go index, 0-based).
SwapWithLast(lines, pos) ==
    [i \in 1..Len(lines) |->
        IF i = Len(lines) THEN lines[pos + 1]
        ELSE IF i = pos + 1 THEN lines[Len(lines)]
        ELSE lines[i]]

\* context.go 154: the test that decides between relocating and appending.
FoldRelocates(pos) == pos > 0

\* context.go 146-158: one iteration of the scan loop.
FoldStep(lines, t) ==
    LET pos == FirstPos(lines, t)
    IN  IF FoldRelocates(pos) THEN SwapWithLast(lines, pos)
        ELSE Append(lines, t)

\* context.go 143-159: the scan loop over the whole file.
RECURSIVE FoldFrom(_, _, _)
FoldFrom(lines, file, i) ==
    IF i > Len(file) THEN lines
    ELSE FoldFrom(FoldStep(lines, file[i]), file, i + 1)

Fold(file) == FoldFrom(<<>>, file, 1)

\* context.go 161-173: the write loop; lineCount counts down while over budget.
RECURSIVE WriteFrom(_, _, _, _, _)
WriteFrom(lines, i, lineCount, maxLine, written) ==
    IF i > Len(lines) THEN written
    ELSE IF lineCount > maxLine
         THEN WriteFrom(lines, i + 1, lineCount - 1, maxLine, written)
         ELSE WriteFrom(lines, i + 1, lineCount, maxLine, Append(written, lines[i]))

\* context.go 128-177: the file's lines after keepMaxLine(f, maxLine).
keepMaxLine(file, maxLine) ==
    LET lines == Fold(file)
    IN  WriteFrom(lines, 1, Len(lines), maxLine, <<>>)

HistIdle == hLines = <<>> /\ hMax = 0 /\ hOut = <<>> /\ hDone = FALSE

HistInit ==
    /\ hLines \in SeqsUpTo(HistLines, MaxHistLen)
    /\ hMax \in 0..MaxKeep
    /\ hOut = <<>>
    /\ hDone = FALSE

RunKeepMaxLine ==
    /\ ~hDone
    /\ hOut' = keepMaxLine(hLines, hMax)
    /\ hDone' = TRUE
    /\ UNCHANGED <<hLines, hMax>>


------------------------------------------------------------------------------
(* Stores a database file may hold when the program opens it.               *)

bA == <<65>>
bB == <<66>>
bC == <<67>>
kk == <<107>>
kj == <<106>>
kn == <<110>>
vv == <<118>>
vw == <<119>>

One(x, y) == [z \in {x} |-> y]
Two(x1, y1, x2, y2) == [z \in {x1, x2} |-> IF z = x1 THEN y1 ELSE y2]

InitStores == {
    <<>>,
    One(bA, One(kk, Val(vv))),
    One(bB, One(kj, Val(vw))),
    Two(bA, Two(kk, Val(vv), kj, Val(vw)), bB, One(kk, Val(vw))),
    Two(bA, One(kk, Val(vv)), bB, One(kk, Nested(One(kj, Val(vw))))),
    One(bA, Two(kk, Val(vv), kn, Nested(One(kk, Val(vw))))),
    Upsert(Two(bA, One(kn, Nested(One(kk, Val(vw)))), bB, One(kj, Val(vw))),
           bC, One(kn, Val(vv))) }

RunInit ==
    /\ db \in InitStores
    /\ db0 = db
    /\ out = <<>>
    /\ outcome = "none"
    /\ execErr = ""
    /\ status = -1

RunIdle ==
    /\ db = <<>> /\ db0 = <<>> /\ out = <<>>
    /\ outcome = "none" /\ execErr = "" /\ status = -1

------------------------------------------------------------------------------
(* Batch mode: main.go 22-54.  Each step is one run of the program with     *)
(* trailing arguments on the same database file.                            *)

\* A command line typed with single blanks between its words.
Typed(words) == Join([i \in 1..Len(words) |-> <<words[i]>>])

BucketWords == {"A", "B", "\\x41"}
OptionWords == {"k", "j", "withvalue"}

\* The word lists given as trailing arguments, one word per argument.
BatchWords ==
    {<<"set", b, "k", "v">> : b \in BucketWords}
    \cup {<<"get", b, "k">> : b \in BucketWords}
    \cup {<<"remove", "bucket", b>> : b \in BucketWords}
    \cup {<<"copy-bucket", d, s>> : d \in {"A", "B"}, s \in BucketWords}
    \cup {<<"merge-all-buckets-into-one", b>> : b \in BucketWords}
    \cup {<<"keys", b>> : b \in BucketWords}
    \cup {<<"keys", "A", x>> : x \in OptionWords \cup {"["}}
    \cup {<<"keys", "A", x, y>> : x \in {"k", "withvalue"}, y \in OptionWords}
    \cup {<<"set", "A", "j", "w">>, <<"set", "A", "k", "w">>, <<"set", "B", "j", "%">>,
          <<"s", "A", "k", "v">>, <<"set", "A", "k">>,
          <<"get", "A", "j">>, <<"g", "A", "k">>, <<"get", "A", "n", "k">>,
          <<"get", "A", "k", "k">>, <<"get", "A">>,
          <<"remove", "key", "A", "k">>, <<"remove", "key", "A", "j">>,
          <<"remove", "key", "B", "k">>,
          <<"remove", "bucket", "A", "B">>, <<"remove", "key", "A", "k", "j">>,
          <<"remove", "key", "A", "n">>, <<"remove", "key", "A">>,
          <<"remove", "bucket">>, <<"remove", "all", "A">>, <<"rm", "bucket", "A">>,
          <<"copy-bucket", "key", "A">>, <<"cpbkt", "B", "A">>, <<"copy-bucket", "A">>,
          <<"keys">>, <<"k", "A">>,
          <<"buckets">>, <<"b">>, <<"buckets", "A">>, <<"buckets", "[">>,
          <<"buckets", "A", "B">>,
          <<"stat">>, <<"st", "A">>, <<"help">>, <<"help", "get">>, <<"?", "bogus">>,
          <<"exit">>, <<"q">>, <<"exit", "now">>, <<"bogus">>}

\* flag.Args()[1:]: one word per argument, or an argument the shell passed
\* empty, blank, or holding a blank.
BatchArgvs ==
    {[i \in 1..Len(ws) |-> <<ws[i]>>] : ws \in BatchWords}
    \cup { << <<>> >>, << <<SP>> >>, << <<"set">>, <<"A", SP, "k">>, <<"v">> >> }

MaxRuns == 2            \* most runs of the program on one database file

BatchInit == RunInit /\ cmdLine = <<>> /\ runs = 0
BatchIdle == cmdLine = <<>> /\ runs = 0

\* main.go 47-54: the arguments are joined and dispatched once.  A non-nil
\* error is fatal (status 1), a panic ends the process with status 2.
Batch(argv) ==
    \E r \in {Execute(db, Join(argv))} :
        /\ runs < MaxRuns
        /\ runs' = runs + 1
        /\ cmdLine' = Join(argv)
        /\ db0' = db
        /\ db' = r.db
        /\ outcome' = r.kind
        /\ execErr' = r.err
        /\ out' = IF r.err # "" THEN Append(r.out, Event("error", r.err)) ELSE r.out
        /\ status' = IF r.exit = "panic" THEN 2 ELSE IF r.err # "" THEN 1 ELSE 0

------------------------------------------------------------------------------
(* Interactive mode: main.go 56-69, context.go 56-79, 105-126.              *)

MaxLines    == 65536
MaxDispatch == 2        \* most lines dispatched in one session

\* liner.State.ReadHistory (context.go 111): the file's lines become the
\* history.
ReadHistory(file) == file

\* liner.State.AppendHistory (context.go 78): an item equal to the last one
\* is not added again.
AppendHistory(history, item) ==
    IF Len(history) > 0 /\ history[Len(history)] = item THEN history
    ELSE Append(history, item)

\* context.go 114-126: the file is opened for appending, liner writes every
\* item of its history after what the file holds, keepMaxLine compacts.
WriteHistory(file, history) == keepMaxLine(file \o history, MaxLines)

SessionLines == {
    <<>>, <<SP>>,
    Typed(<<"exit">>), Typed(<<"q">>), Typed(<<"exit", "now">>), Typed(<<"bogus">>),
    Typed(<<"set", "A", "k", "v">>), Typed(<<"remove", "bucket", "A">>) }

\* What liner.Prompt returns beside the line: nil, ErrPromptAborted, io.EOF.
PromptErrors == {"", "aborted", "EOF"}

SessInit ==
    /\ pc = "start"
    /\ ctxErr = ""
    /\ command = <<>>
    /\ memHist = <<>>
    /\ histFile \in {<<>>, <<Typed(<<"bogus">>)>>,
                     <<Typed(<<"stat">>), Typed(<<"set", "A", "k", "v">>)>>}
    /\ lastPrompt = [empty |-> TRUE, err |-> ""]
    /\ dispatched = 0

SessIdle ==
    /\ pc = "idle" /\ ctxErr = "" /\ command = <<>> /\ memHist = <<>>
    /\ histFile = <<>> /\ lastPrompt = [empty |-> TRUE, err |-> ""]
    /\ dispatched = 0

\* main.go 56-60: the history file is loaded (a missing file is no error).
SessionStart ==
    /\ pc = "start"
    /\ memHist' = ReadHistory(histFile)
    /\ pc' = "next"
    /\ UNCHANGED <<ctxErr, command, histFile, lastPrompt, dispatched>>
    /\ UNCHANGED runVars

\* context.go 59-68: what one pass of the loop of Context.Next does with the
\* line and the error liner.Prompt returned: "again" (continue), "false"
\* (record the error, return false) or "true" (keep the line, return true).
NextDecision(text, err) ==
    IF err = "aborted" THEN "again"
    ELSE IF text = <<>> THEN "again"
    ELSE IF err # "" THEN "false"
    ELSE "true"

\* context.go 56-72: one pass of the loop of Context.Next.
NextPrompt(text, err) ==
    /\ pc = "next"
    /\ lastPrompt' = [empty |-> text = <<>>, err |-> err]
    /\ CASE NextDecision(text, err) = "again" ->
                UNCHANGED <<pc, ctxErr, command, dispatched>>
         [] NextDecision(text, err) = "false" ->
                /\ ctxErr' = err
                /\ pc' = "shutdown"
                /\ UNCHANGED <<command, dispatched>>
         [] NextDecision(text, err) = "true" ->
                /\ dispatched < MaxDispatch
                /\ command' = text
                /\ dispatched' = dispatched + 1
                /\ pc' = "do"
                /\ UNCHANGED ctxErr
    /\ UNCHANGED <<memHist, histFile>>
    /\ UNCHANGED runVars

\* context.go 74-79: Context.Do.  os.Exit inside the exit command ends the
\* process at once; a panic unwinds main and runs its deferred calls (the
\* history is written) before the process dies with status 2; an error from
\* Execute is fatal (status 1).
Do ==
    /\ pc = "do"
    /\ \E r \in {Execute(db, command)} :
           /\ db0' = db
           /\ db' = r.db
           /\ outcome' = r.kind
           /\ execErr' = r.err
           /\ IF r.exit = "exit0"
              THEN /\ pc' = "exited" /\ status' = 0 /\ out' = r.out
                   /\ UNCHANGED <<memHist, histFile>>
              ELSE IF r.exit = "panic"
              THEN /\ pc' = "crashed" /\ status' = 2 /\ out' = r.out
                   /\ histFile' = WriteHistory(histFile, memHist)
                   /\ UNCHANGED memHist
              ELSE IF r.err # ""
              THEN /\ pc' = "fatal" /\ status' = 1
                   /\ out' = Append(r.out, Event("error", r.err))
                   /\ UNCHANGED <<memHist, histFile>>
              ELSE /\ pc' = "next" /\ out' = r.out
                   /\ memHist' = AppendHistory(memHist, command)
                   /\ UNCHANGED <<status, histFile>>
    /\ UNCHANGED <<ctxErr, command, lastPrompt, dispatched>>

\* main.go 61-69: Next returned false; main returns, its deferred calls
\* write the history and close the line reader.
MainReturn ==
    /\ pc = "shutdown"
    /\ histFile' = WriteHistory(histFile, memHist)
    /\ pc' = "returned"
    /\ status' = 0
    /\ UNCHANGED <<ctxErr, command, memHist, lastPrompt, dispatched>>
    /\ UNCHANGED <<db, db0, out, outcome, execErr>>

------------------------------------------------------------------------------
(* The specifications.                                                      *)

HistoryInit == HistInit /\ CodecIdle /\ ListIdle /\ RunIdle /\ BatchIdle /\ SessIdle /\ ValidIdle
HistoryNext ==
    RunKeepMaxLine /\ UNCHANGED <<validVars, codecVars, listVars, runVars, batchVars, sessVars>>
HistorySpec == HistoryInit /\ [][HistoryNext]_vars

CodecInit == CodecInit0 /\ HistIdle /\ ListIdle /\ RunIdle /\ BatchIdle /\ SessIdle /\ ValidIdle
CodecNext ==
    \/ Encode /\ UNCHANGED <<validVars, histVars, listVars, runVars, batchVars, sessVars>>
    \/ Decode /\ UNCHANGED <<validVars, histVars, listVars, runVars, batchVars, sessVars>>
    \/ DecodeTyped /\ UNCHANGED <<validVars, histVars, listVars, runVars, batchVars, sessVars>>
CodecSpec == CodecInit /\ [][CodecNext]_vars

ListInit == ListInit0 /\ HistIdle /\ CodecIdle /\ RunIdle /\ BatchIdle /\ SessIdle /\ ValidIdle
ListNext ==
    \/ ListStart /\ UNCHANGED <<validVars, histVars, codecVars, runVars, batchVars, sessVars>>
    \/ ListVisit /\ UNCHANGED <<validVars, histVars, codecVars, runVars, batchVars, sessVars>>
    \/ (\E text \in AnswerLines, failed \in BOOLEAN : ListAnswer(text, failed))
           /\ UNCHANGED <<validVars, histVars, codecVars, runVars, batchVars, sessVars>>
    \/ ListFinish /\ UNCHANGED <<validVars, histVars, codecVars, runVars, batchVars, sessVars>>
ListSpec == ListInit /\ [][ListNext]_vars

SessionInit == SessInit /\ RunInit /\ BatchIdle /\ HistIdle /\ CodecIdle /\ ListIdle /\ ValidIdle
SessionNext ==
    \/ SessionStart /\ UNCHANGED <<validVars, histVars, codecVars, listVars, batchVars>>
    \/ (\E text \in SessionLines, err \in PromptErrors : NextPrompt(text, err))
           /\ UNCHANGED <<validVars, histVars, codecVars, listVars, batchVars>>
    \/ Do /\ UNCHANGED <<validVars, histVars, codecVars, listVars, batchVars>>
    \/ MainReturn /\ UNCHANGED <<validVars, histVars, codecVars, listVars, batchVars>>
SessionSpec == SessionInit /\ [][SessionNext]_vars

Init == BatchInit /\ SessIdle /\ HistIdle /\ CodecIdle /\ ListIdle /\ ValidIdle
Next ==
    (\E argv \in BatchArgvs : Batch(argv))
        /\ UNCHANGED <<validVars, histVars, codecVars, listVars, sessVars>>
Spec == Init /\ [][Next]_vars

ValidateInit ==
    ValidInit0 /\ HistIdle /\ CodecIdle /\ ListIdle /\ RunIdle /\ BatchIdle /\ SessIdle
ValidateNext ==
    Validate /\ UNCHANGED <<histVars, codecVars, listVars, runVars, batchVars, sessVars>>
ValidateSpec == ValidateInit /\ [][ValidateNext]_vars

------------------------------------------------------------------------------
(* Claims about keepMaxLine.                                                *)

\* Go index of the last occurrence of t in file (-1 if none).
LastPos(file, t) ==
    IF \E i \in 1..Len(file) : file[i] = t
    THEN (CHOOSE i \in 1..Len(file) :
              /\ file[i] = t
              /\ \A j \in (i + 1)..Len(file) : file[j] # t) - 1
    ELSE -1

\* file with each line kept once, at the place of its most recent occurrence.
RECURSIVE KeepMostRecent(_, _)
KeepMostRecent(file, i) ==
    IF i > Len(file) THEN <<>>
    ELSE IF \E j \in (i + 1)..Len(file) : file[j] = file[i]
         THEN KeepMostRecent(file, i + 1)
         ELSE <<file[i]>> \o KeepMostRecent(file, i + 1)

\* C2: keepMaxLine rewrites the file to the last min(|F|, max) entries of F,
\* where F is the input with every duplicated line kept once at its most
\* recent occurrence and the other lines in their relative order.
C2_FoldsToMostRecentUse ==
    hDone => hOut = LastN(KeepMostRecent(hLines, 1), hMax)

\* C9: keepMaxLine leaves at most max lines; the lines it drops are the
\* oldest: no retained line was last used before a dropped line, and for
\* max >= 1 the most recently used line (the last of the file) is retained.
C9_DropsOldestOnly ==
    hDone =>
        /\ Len(hOut) <= hMax
        /\ \A r \in Range(hOut) : \A d \in Range(hLines) \ Range(hOut) :
               LastPos(hLines, r) > LastPos(hLines, d)
        /\ (hMax >= 1 /\ hLines # <<>>) =>
               (hOut # <<>> /\ hOut[Len(hOut)] = hLines[Len(hLines)])

------------------------------------------------------------------------------
(* Claims about the codec.                                                  *)


\* b holds a substring shaped like an escape: \x and two characters of [a-z0-9].
HasEscapeShape(b) == \E i \in 1..Len(b) : MatchesAt(b, i)

\* C5: for every byte string b without an \xHH-shaped substring (newlines,
\* carriage returns, control bytes, backslashes and quotes included),
\* stringToBytes(bytesToString(b)) = b, and a newline byte is rendered as
\* \x0a, a carriage return as \x0d.
C5_RoundTrip ==
    (cpc = "decoded" /\ ~HasEscapeShape(cBytes)) =>
        /\ cBack = cBytes
        /\ cBytes = <<10>> => cText = <<92, 120, 48, 97>>
        /\ cBytes = <<13>> => cText = <<92, 120, 48, 100>>

\* s holds, at position i, \x followed by two lower-case hexadecimal digits.
HexEscapeAt(s, i) ==
    /\ i + 3 <= Len(s)
    /\ s[i] = 92 /\ s[i + 1] = 120
    /\ IsHex(s[i + 2]) /\ IsHex(s[i + 3])

\* s with every such escape replaced by its byte, the rest unchanged.
RECURSIVE HexDecoded(_, _)
HexDecoded(s, i) ==
    IF i > Len(s) THEN <<>>
    ELSE IF HexEscapeAt(s, i)
         THEN <<16 * HexValue(s[i + 2]) + HexValue(s[i + 3])>> \o HexDecoded(s, i + 4)
         ELSE <<s[i]>> \o HexDecoded(s, i + 1)

\* C12: stringToBytes replaces each \x followed by two lower-case
\* hexadecimal digits by the byte of that value and leaves every other
\* character unchanged, a \x followed by something else included.
C12_DecodesHexEscapesOnly ==
    cpc = "typed" => cBack = HexDecoded(cBytes, 1)

------------------------------------------------------------------------------
(* Claims about the paginated listing.                                      *)


\* The names the matcher lets through, in iteration order.
Matching == SelectSeq([i \in 1..lItems |-> i], LAMBDA i : Match(lPattern, i))

\* The rows of every page printed so far, in order.
PrintedRows == Flatten([i \in 1..Len(lOut) |-> lOut[i].rows])

PromptCount == Cardinality({i \in 1..Len(lOut) : lOut[i].k = "prompt"})

AllAffirmative == \A i \in 1..Len(lAnswers) : lAnswers[i] = "yes"

\* C10: a listing of N matching rows whose continue prompts are all answered
\* affirmatively asks floor(N/32) times, each time right after a page of the
\* 32 rows accumulated since the previous flush; every matching row is
\* printed once, in iteration order, numbered 1..N; the final flush prints
\* the remaining N mod 32 rows, and nothing when that is zero.
C10_Pagination ==
    (lpc = "done" /\ lErr = "" /\ AllAffirmative) =>
        LET N == Len(Matching)
        IN  /\ PromptCount = N \div askContinueSize
            /\ PrintedRows = [i \in 1..N |-> <<i, Matching[i]>>]
            /\ \A i \in 1..Len(lOut) : lOut[i].k = "prompt" =>
                   /\ i > 1
                   /\ lOut[i - 1].k = "page"
                   /\ Len(lOut[i - 1].rows) = askContinueSize
            /\ Len(lOut) = 2 * (N \div askContinueSize)
                             + (IF N % askContinueSize = 0 THEN 0 ELSE 1)
            /\ N % askContinueSize # 0 =>
                   /\ lOut[Len(lOut)].k = "page"
                   /\ Len(lOut[Len(lOut)].rows) = N % askContinueSize

\* 65 rows: two page flushes, two prompts, a final flush of one row.
C10_Witness ==
    /\ lpc = "done" /\ lErr = "" /\ AllAffirmative
    /\ Len(Matching) = 65
    /\ Len(lOut) = 5
    /\ Len(lOut[5].rows) = 1

PageCount == Cardinality({i \in 1..Len(lOut) : lOut[i].k = "page"})

InvalidCount == Cardinality({i \in 1..Len(lAnswers) : lAnswers[i] = "invalid"})

\* C11: a negative answer at the k-th page boundary stops the listing there:
\* exactly the first 32*k matching rows have been printed, the iteration has
\* not gone past the row that filled the k-th page, and the command returns
\* nil; an unrecognised answer only prints the notice and a new prompt, so
\* at every boundary the rows printed are those of the pages flushed so far.
C11_NegativeAnswerStops ==
    /\ (lpc = "done" /\ lAnswers # <<>> /\ lAnswers[Len(lAnswers)] = "no") =>
           LET k == Cardinality({i \in 1..Len(lAnswers) : lAnswers[i] # "invalid"})
           IN  /\ PrintedRows =
                      [i \in 1..(askContinueSize * k) |-> <<i, Matching[i]>>]
               /\ lPos = Matching[askContinueSize * k]
               /\ tlTotal = askContinueSize * k
               /\ lErr = ""
               /\ \A i \in 1..Len(lOut) : lOut[i].k \in {"page", "prompt", "invalid"}
    /\ lpc = "ask" =>
           /\ Len(PrintedRows) = askContinueSize * PageCount
           /\ tlRows = <<>>
           /\ PromptCount = PageCount + InvalidCount
           /\ lOut[Len(lOut)].k = "prompt"

\* 66 names, an unrecognised answer at the first prompt, then yes, then no
\* at the second prompt: 64 rows printed, names 65 and 66 never visited.
C11_Witness ==
    /\ lpc = "done" /\ lItems = 66 /\ lPattern = ""
    /\ lAnswers = <<"invalid", "yes", "no">>
    /\ Len(PrintedRows) = 64
    /\ lPos = 64

------------------------------------------------------------------------------
(* Claims about the interactive session.                                    *)

\* C3: when the session ends through exit / q, the history (the lines
\* loaded at start and the lines entered and dispatched in this session)
\* has been written to the history file before the process ends.
C3_ExitWritesHistory ==
    pc = "exited" =>
        /\ status = 0
        /\ \A i \in 1..Len(memHist) : memHist[i] \in Range(histFile)

\* C4: a line-reader error other than the prompt-aborted one makes
\* Context.Next record it and return false, whatever line comes with it (the
\* empty line included): the read loop is left and the shutdown path runs.
C4_InputErrorEndsLoop ==
    lastPrompt.err \notin {"", "aborted"} =>
        /\ pc \in {"shutdown", "returned"}
        /\ ctxErr = lastPrompt.err

Failures == {"unknown", "invalid", "failed"}

\* C6: for a line with at least one token, commands.Execute returns nil
\* whether the command is unknown, fails validation or fails in its
\* executor; each case only prints a message, Context.Do never takes its
\* fatal branch and the session goes on to the next prompt.
C6_FailuresNotPropagated ==
    /\ pc # "fatal"
    /\ outcome \in Failures =>
           /\ execErr = ""
           /\ out # <<>>
           /\ out[Len(out)].k \in {"error", "unknown"}
           /\ pc \in {"next", "do", "shutdown", "returned"}
           /\ status \in {-1, 0}

\* An executor failed (remove bucket of a missing bucket), the error was
\* printed and the session is back in Context.Next.
C6_Witness ==
    /\ pc = "next"
    /\ outcome = "failed"
    /\ out[Len(out)].k = "error"
    /\ Len(Fields(command)) >= 1

\* C19: after the WriteHistory that ends a session (the history read from
\* the file, the dispatched lines appended, the whole appended to the file
\* and compacted) the file holds no two identical lines and at most
\* MaxLines lines.
C19_HistoryFileHasNoDuplicates ==
    pc \in {"returned", "crashed"} =>
        /\ \A i, j \in 1..Len(histFile) : histFile[i] = histFile[j] => i = j
        /\ Len(histFile) <= MaxLines

\* C20: every line handed to commands.Execute, by Context.Do in the
\* interactive loop or by main in batch mode, holds at least one token, so
\* Execute never reads the first element of an empty token list.
C20_DispatchedLinesHaveAToken ==
    /\ dispatched > 0 => Len(Fields(command)) >= 1
    /\ runs > 0 => Len(Fields(cmdLine)) >= 1

------------------------------------------------------------------------------
(* Claims about the commands, on batch-mode runs.                           *)

Args == Fields(cmdLine)

\* C1: copy-bucket <dst> <src> (or cpbkt) dispatched when src exists leaves
\* dst existing and holding every key/value entry of src, and src existing
\* with its entries unchanged.
C1_CopyBucketCopies ==
    (/\ runs > 0
     /\ Len(Args) = 3
     /\ Args[1] \in {"copy-bucket", "cpbkt"}
     /\ WordBytes(Args[3]) \in DOMAIN db0) =>
        LET dst == WordBytes(Args[2])
            src == WordBytes(Args[3])
        IN  /\ dst \in DOMAIN db
            /\ src \in DOMAIN db
            /\ db[src] = db0[src]
            /\ \A k \in DOMAIN db0[src] :
                   db0[src][k].t = "v" =>
                       (k \in DOMAIN db[dst] /\ db[dst][k] = db0[src][k])

\* C7: after merge-all-buckets-into-one D succeeds, D is the only top-level
\* bucket, and every key that had a value in some top-level bucket before
\* (D included) is in D with a value it had in one of them.
C7_MergeKeepsEveryKey ==
    (/\ runs > 0
     /\ Len(Args) = 2
     /\ Args[1] = "merge-all-buckets-into-one"
     /\ outcome = "ok") =>
        LET D == WordBytes(Args[2])
        IN  /\ DOMAIN db = {D}
            /\ \A b \in DOMAIN db0 : \A k \in DOMAIN db0[b] :
                   db0[b][k].t = "v" =>
                       /\ k \in DOMAIN db[D]
                       /\ \E b2 \in DOMAIN db0 :
                              /\ k \in DOMAIN db0[b2]
                              /\ db0[b2][k].t = "v"
                              /\ db[D][k] = db0[b2][k]

\* C8: the tokens after keys <bucket> are read order-independently; the
\* values are shown only when one of them is withvalue: every row printed
\* has a value column exactly when a token equals withvalue.
C8_ValuesOnlyWhenFlagged ==
    (/\ runs > 0
     /\ Len(Args) \in {3, 4}
     /\ Args[1] \in {"keys", "k"}
     /\ outcome = "ok") =>
        \A i \in 1..Len(out) : out[i].k = "page" =>
            \A j \in 1..Len(out[i].rows) :
                Len(out[i].rows[j]) =
                    (IF "withvalue" \in Range(Tail(Tail(Args))) THEN 3 ELSE 2)

\* C13: after set B K V succeeds, bucket B holds V under K, nothing else in
\* the store has changed, and a following get B K prints V (for V holding
\* no escape sequence).
C13_SetThenGet ==
    (/\ runs > 0
     /\ Len(Args) = 4
     /\ Args[1] \in {"set", "s"}
     /\ outcome = "ok"
     /\ ~HasEscapeShape(Chars(Args[4]))) =>
        LET B == WordBytes(Args[2])
            K == WordBytes(Args[3])
        IN  /\ B \in DOMAIN db
            /\ K \in DOMAIN db[B]
            /\ db[B][K] = Val(Chars(Args[4]))
            /\ \A b \in DOMAIN db0 \ {B} : b \in DOMAIN db /\ db[b] = db0[b]
            /\ DOMAIN db \ {B} = DOMAIN db0 \ {B}
            /\ B \in DOMAIN db0 =>
                   /\ DOMAIN db[B] = DOMAIN db0[B] \cup {K}
                   /\ \A x \in DOMAIN db0[B] \ {K} : db[B][x] = db0[B][x]
            /\ B \notin DOMAIN db0 => DOMAIN db[B] = {K}
            /\ Execute(db, Typed(<<"get", Args[2], Args[3]>>)).out
                   = <<Event("value", Chars(Args[4]))>>

\* The dispatcher printed an error: line.
ErrorPrinted == \E i \in 1..Len(out) : out[i].k = "error"

\* C14: copy-bucket <dst> <src> with src missing is a silent success: no
\* error: line is printed and the store is unchanged.
C14_CopyMissingSourceIsNoOp ==
    (/\ runs > 0
     /\ Len(Args) = 3
     /\ Args[1] \in {"copy-bucket", "cpbkt"}
     /\ WordBytes(Args[3]) \notin DOMAIN db0) =>
        /\ outcome = "ok"
        /\ ~ErrorPrinted
        /\ db = db0

\* The keys named by the words from position 3 on.
KeysNamed == {WordBytes(Args[i]) : i \in 4..Len(Args)}

IsRemoveKey == runs > 0 /\ Len(Args) >= 3 /\ Args[1] \in {"remove", "rm"} /\ Args[2] = "key"

\* remove key B with no key is rejected with an error, store unchanged.
RemoveKeyNeedsKey ==
    (IsRemoveKey /\ Len(Args) = 3) =>
        (outcome \in Failures /\ ErrorPrinted /\ db = db0)

\* remove key B k1..kn deleted exactly k1..kn from B (a silent no-op when B
\* is missing) and changed nothing else.
RemovedExactly ==
    LET B == WordBytes(Args[3])
    IN  /\ outcome = "ok"
        /\ ~ErrorPrinted
        /\ DOMAIN db = DOMAIN db0
        /\ \A b \in DOMAIN db0 \ {B} : db[b] = db0[b]
        /\ B \in DOMAIN db0 =>
               /\ DOMAIN db[B] = DOMAIN db0[B] \ KeysNamed
               /\ \A k \in DOMAIN db[B] : db[B][k] = db0[B][k]

\* One of the keys named holds a nested bucket of B.
NamesNestedBucket ==
    /\ WordBytes(Args[3]) \in DOMAIN db0
    /\ \E k \in KeysNamed : HasNested(db0[WordBytes(Args[3])], k)

\* C15 as stated: remove key B k1..kn (n >= 1) deletes exactly k1..kn from
\* B and leaves every other key and bucket unchanged; a missing B is a
\* silent no-op; remove key B without a key is rejected, store unchanged.
C15_RemoveKeysExactly ==
    /\ RemoveKeyNeedsKey
    /\ (IsRemoveKey /\ Len(Args) >= 4) => RemovedExactly

\* C15 amended: the same, except that when one of k1..kn holds a nested
\* bucket of B the command fails with an error and deletes nothing.
C15_RemoveKeysUnlessNested ==
    /\ RemoveKeyNeedsKey
    /\ (IsRemoveKey /\ Len(Args) >= 4) =>
           IF NamesNestedBucket
           THEN outcome = "failed" /\ ErrorPrinted /\ db = db0
           ELSE RemovedExactly

\* remove key A k j on {A: {k, j}, B: {k}}: A is left empty, B untouched.
C15_Witness ==
    /\ IsRemoveKey /\ Len(Args) = 5
    /\ outcome = "ok"
    /\ db0 = Two(bA, Two(kk, Val(vv), kj, Val(vw)), bB, One(kk, Val(vw)))
    /\ db = Two(bA, <<>>, bB, One(kk, Val(vw)))

\* C16: after remove bucket N1..Nm (m >= 1) succeeds none of the named
\* buckets exists, a following buckets listing omits them, and every other
\* bucket is unchanged.
C16_RemoveBuckets ==
    (/\ runs > 0
     /\ Len(Args) >= 3
     /\ Args[1] \in {"remove", "rm"}
     /\ Args[2] = "bucket"
     /\ outcome = "ok") =>
        LET Named == {WordBytes(Args[i]) : i \in 3..Len(Args)}
            listing == Execute(db, Typed(<<"buckets">>)).out
        IN  /\ DOMAIN db = DOMAIN db0 \ Named
            /\ \A b \in DOMAIN db : db[b] = db0[b]
            /\ \A i \in 1..Len(listing) : \A j \in 1..Len(listing[i].rows) :
                   \A n \in Named : listing[i].rows[j][2] # bytesToString(n)

\* remove bucket A B on a store holding both: the store is left empty.
C16_Witness ==
    /\ runs > 0
    /\ Args = <<"remove", "bucket", "A", "B">>
    /\ outcome = "ok"
    /\ DOMAIN db0 = {bA, bB}
    /\ db = <<>>

\* The bucket reached from bu through the nested buckets named by
\* Args[i..last]; ok is FALSE when one of them is missing.
RECURSIVE Descend(_, _, _)
Descend(bu, i, last) ==
    IF i > last THEN [ok |-> TRUE, bu |-> bu]
    ELSE IF WordBytes(Args[i]) \in DOMAIN bu /\ bu[WordBytes(Args[i])].t = "b"
         THEN Descend(bu[WordBytes(Args[i])].b, i + 1, last)
         ELSE [ok |-> FALSE, bu |-> bu]

\* get names a bucket that is missing at some level of its path, or a key
\* missing from the innermost bucket.
GetTargetMissing ==
    \/ WordBytes(Args[2]) \notin DOMAIN db0
    \/ /\ WordBytes(Args[2]) \in DOMAIN db0
       /\ LET d == Descend(db0[WordBytes(Args[2])], 3, Len(Args) - 1)
          IN  ~d.ok \/ WordBytes(Args[Len(Args)]) \notin DOMAIN d.bu

\* C18: get with a bucket missing at any level of the path, or with a key
\* missing from the innermost bucket, prints a not-found message, returns
\* nil (no error: line) and leaves the store unchanged.
C18_GetNotFound ==
    (/\ runs > 0
     /\ Len(Args) >= 3
     /\ Args[1] \in {"get", "g"}
     /\ GetTargetMissing) =>
        /\ outcome = "ok"
        /\ execErr = ""
        /\ Len(out) = 1
        /\ out[1].k = "notfound"
        /\ db = db0

\* get A k k where k of A holds a value, not a bucket: the path is missing.
C18_Witness ==
    /\ runs > 0
    /\ Args = <<"get", "A", "k", "k">>
    /\ bA \in DOMAIN db0 /\ kk \in DOMAIN db0[bA]
    /\ out = <<Event("notfound", "err: bucket k not found")>>
    /\ outcome = "ok"

MutatingAliases ==
    {"set", "s", "remove", "rm", "copy-bucket", "cpbkt", "merge-all-buckets-into-one"}

\* C21: when a run of a mutating command (set, remove, copy-bucket,
\* merge-all-buckets-into-one) reports an error, the store afterwards is
\* the store before the run: nothing of what the command did remains.
C21_ErrorLeavesStoreUnchanged ==
    (/\ runs > 0
     /\ Len(Args) >= 1
     /\ Args[1] \in MutatingAliases
     /\ (ErrorPrinted \/ outcome \in Failures)) =>
        db = db0

\* A merge into A that fails at bucket C (its key n holds a nested bucket
\* in A) after bucket B was copied and deleted: A, B and C are as before.
C21_Witness ==
    /\ runs > 0
    /\ Args = <<"merge-all-buckets-into-one", "A">>
    /\ outcome = "failed"
    /\ out = <<Event("error", "incompatible value")>>
    /\ DOMAIN db0 = {bA, bB, bC}
    /\ db = db0

------------------------------------------------------------------------------
(* Claims about the validation chains.                                      *)

\* What each check accepts.
Passes(c, args) ==
    CASE c.f = "NumArgs" -> Len(args) = c.n
      [] c.f = "MinArgs" -> Len(args) >= c.n
      [] c.f = "MaxArgs" -> Len(args) <= c.n
      [] c.f = "NumArgsChoice" -> Len(args) \in Range(c.ns)
      [] c.f = "Choices" -> Len(args) <= c.n \/ args[c.n + 1] \in Range(c.choices)

\* C17: a chain returns nil when every check passes and otherwise the error
\* of the first check, in composition order, that fails; NumArgs(n) passes
\* iff the count is n, MinArgs(n) iff it is >= n, MaxArgs(n) iff it is <= n,
\* NumArgsChoice iff it is one of the listed counts, Choices(pos, allowed)
\* when there is no argument at pos or that argument is one of allowed.
C17_FirstFailingCheck ==
    vpc = "done" =>
        IF \A i \in 1..Len(vChain) : Passes(vChain[i], vArgs)
        THEN vErr = ""
        ELSE LET first == CHOOSE i \in 1..Len(vChain) :
                              /\ ~Passes(vChain[i], vArgs)
                              /\ \A j \in 1..(i - 1) : Passes(vChain[j], vArgs)
             IN  /\ vErr # ""
                 /\ vErr = RunCheck(vChain[first], vArgs)

\* MinArgs(2) then Choices(0, [bucket key]) on the one argument x: both
\* fail, the error is that of MinArgs.
C17_Witness ==
    /\ vpc = "done"
    /\ vChain = <<MinArgsCheck(2), ChoicesCheck(0, <<"bucket", "key">>)>>
    /\ vArgs = <<"x">>
    /\ vErr = "expect minimum 2 arguments, got 1"

-------------------------------------------------------------------------------
(* Claims about the dispatcher's use of the validation chains.             *)

\* The checks of the command a dispatched line names, and its arguments.
ChainOf(words) == Registry[find(words[1])].validates
ChainPasses(words) ==
    \A i \in 1..Len(ChainOf(words)) : Passes(ChainOf(words)[i], Tail(words))

\* The outcomes in which the executor of the command was called.
ExecutorRan == {"ok", "failed", "exit", "panic"}

\* C22: for a line naming a registered command, the executor is called only
\* when every check of the command's chain passes on the line's arguments;
\* when one fails, the output is exactly one error: line carrying the chain's
\* message, the executor is not called and the store is unchanged.
C22_CheckedBeforeExecuted ==
    (/\ runs > 0
     /\ Len(Args) >= 1
     /\ find(Args[1]) # 0) =>
        IF ChainPasses(Args)
        THEN outcome \in ExecutorRan
        ELSE /\ outcome = "invalid"
             /\ out = <<Event("error", Finish(ChainOf(Args), Tail(Args)))>>
             /\ Finish(ChainOf(Args), Tail(Args)) # ""
             /\ db = db0

\* remove all A: two arguments, the first not one of bucket and key; the
\* executor, which treats every first word but key as bucket, would have
\* deleted A.
C22_Witness ==
    /\ runs > 0
    /\ Args = <<"remove", "all", "A">>
    /\ outcome = "invalid"
    /\ out = <<Event("error", "1-th arguments should be one of [bucket key]")>>
    /\ bA \in DOMAIN db0
    /\ db = db0
====
